---- MODULE Spec2Model ----
(***************************************************************************)
(* minestock-ai: the Gemini service (analyzeMaterialCode,                  *)
(* generateBulkAnalysis, getMockData) and the Dashboard component          *)
(* (handleSubmit, handleFile, handleDrag, handleDrop).                     *)
(*                                                                         *)
(* Objects live on a heap (a sequence of objects, an object's reference is *)
(* its index), so that aliasing between records is something the model can *)
(* express.  Strings the code only passes around are TLA+ strings; texts   *)
(* the code splits, trims or lower-cases are sequences of characters.      *)
(***************************************************************************)
EXTENDS Integers, Sequences, FiniteSets, TLC

VARIABLES
    heap,         \* service: the objects allocated so far
    results,      \* service: one entry per finished service call
    searchInput,  \* Dashboard: useState('') of the text field
    dragActive,   \* Dashboard: useState(false)
    isLoading,    \* Dashboard: the isLoading prop
    disk,         \* Dashboard: file name -> file text, what the user can pick
    readers,      \* Dashboard: FileReaders whose readAsText has not completed
    lastEvent     \* Dashboard: the handler that ran last and the callback it invoked

uiVars == <<searchInput, dragActive, isLoading, disk, readers, lastEvent>>
vars == <<heap, results, searchInput, dragActive, isLoading, disk, readers, lastEvent>>

\* ---------------------------------------------------------------- bounds

\* service calls per behaviour
MaxCalls == 2
\* length of the list handed to generateBulkAnalysis
MaxCodes == 4
\* rows of an uploaded file
MaxRows == 2
\* FileReaders in flight at once
MaxPending == 2

Min(a, b) == IF a < b THEN a ELSE b

\* ------------------------------------------------ service: getMockData

\* The mutant: the nested duplicateAnalysis object is hoisted to a single
\* object that every record refers to.
getMockData_SharedDuplicateAnalysis(h, code) ==
    LET b == Len(h)
        dupRef == IF b > 0 THEN 6 ELSE b + 6
    IN  [ref |-> b + 1,
         heap |-> h \o <<
           [kind |-> "profile",
            materialName |-> "Spherical Roller Bearing 22216",
            materialCode |-> code,
            description |-> "Heavy duty spherical roller bearing for conveyor pulley",
            totalQuantity |-> 45,
            averageUnitCost |-> 250,
            materialType |-> "Spare Part",
            stockingStatus |-> "Stock Normally",
            criticality |-> "B",
            estimatedAnnualUsage |-> 120,
            locations |-> b + 2,
            equipmentParent |-> b + 5,
            lastUsedDate |-> "2023-10-15",
            duplicateAnalysis |-> dupRef,
            obsolescence |-> b + 10,
            ropMax |-> b + 11,
            ropCalculation |-> b + 12],
           [kind |-> "refarray", items |-> <<b + 3, b + 4>>],
           [kind |-> "location", name |-> "Site A - Warehouse 1", stock |-> 20,
            lastUsed |-> "2023-10-15"],
           [kind |-> "location", name |-> "Site B - Central", stock |-> 25,
            lastUsed |-> "2022-05-20"],
           [kind |-> "array", items |-> <<"600000236064", "600000998877", "500200112233">>],
           [kind |-> "duplicateAnalysis",
            totalDuplicates |-> 2,
            totalStockAcrossDuplicates |-> 120,
            potentialSavings |-> 30000,
            duplicates |-> b + 7],
           [kind |-> "refarray", items |-> <<b + 8, b + 9>>],
           [kind |-> "duplicate", materialCode |-> "998877665", manufacturer |-> "SKF",
            description |-> "Bearing 22216 EK", stockInHand |-> 80, annualUsage |-> 5,
            lastUsed |-> "2021-01-10", location |-> "Site A - Warehouse 1", unitCost |-> 280],
           [kind |-> "duplicate", materialCode |-> "112233445", manufacturer |-> "Timken",
            description |-> "Roller Bearing 22216-E1", stockInHand |-> 40, annualUsage |-> 12,
            lastUsed |-> "2023-11-01", location |-> "Site C", unitCost |-> 240],
           [kind |-> "obsolescence", riskLevel |-> "High", yearsInStock |-> "2.5",
            marketAvailability |-> "Readily Available"],
           [kind |-> "ropMax", reorderPoint |-> 10, maxStock |-> 50,
            currentStatus |-> "Overstock"],
           [kind |-> "ropCalculation", suggestedROP |-> 10, suggestedMAX |-> 50,
            suggestedEOQ |-> 15, requestedROP |-> 12, requestedMAX |-> 60,
            inputParameters |-> b + 13, baseCalculations |-> b + 14,
            adjustments |-> b + 15],
           [kind |-> "inputParameters", annualUsage |-> 120, leadTime |-> 30,
            criticality |-> "B", unitPrice |-> 250],
           [kind |-> "baseCalculations", baseROP |-> 12, baseEOQ |-> 15, baseMAX |-> 60],
           [kind |-> "adjustments", reason |-> "High duplication detected across sites",
            duplicateDeduction |-> 2, obsolescenceDeduction |-> 0, totalDeduction |-> 2]
         >>]

\* The mutant: the description is derived from the code.
getMockData_CodeInDescription(h, code) ==
    LET r == getMockData_SharedDuplicateAnalysis(<<>>, code)
        b == Len(h)
        shift(o) ==
            CASE o.kind = "profile" ->
                   [o EXCEPT !.locations = @ + b, !.equipmentParent = @ + b,
                             !.duplicateAnalysis = @ + b, !.obsolescence = @ + b,
                             !.ropMax = @ + b, !.ropCalculation = @ + b,
                             !.description = code]
              [] o.kind = "refarray" -> [o EXCEPT !.items = [i \in DOMAIN @ |-> @[i] + b]]
              [] o.kind = "duplicateAnalysis" -> [o EXCEPT !.duplicates = @ + b]
              [] o.kind = "ropCalculation" ->
                   [o EXCEPT !.inputParameters = @ + b, !.baseCalculations = @ + b,
                             !.adjustments = @ + b]
              [] OTHER -> o
    IN  [ref |-> b + 1, heap |-> h \o [i \in 1..Len(r.heap) |-> shift(r.heap[i])]]

\* getMockData(code): a fresh profile object whose nested objects and arrays
\* are fresh too; only materialCode depends on the argument.  yearsInStock is
\* the literal 2.5, kept as its text since nothing computes with it.
getMockData(h, code) ==
    LET b == Len(h)
    IN  [ref |-> b + 1,
         heap |-> h \o <<
           [kind |-> "profile",
            materialName |-> "Spherical Roller Bearing 22216",
            materialCode |-> code,
            description |-> "Heavy duty spherical roller bearing for conveyor pulley",
            totalQuantity |-> 45,
            averageUnitCost |-> 250,
            materialType |-> "Spare Part",
            stockingStatus |-> "Stock Normally",
            criticality |-> "B",
            estimatedAnnualUsage |-> 120,
            locations |-> b + 2,
            equipmentParent |-> b + 5,
            lastUsedDate |-> "2023-10-15",
            duplicateAnalysis |-> b + 6,
            obsolescence |-> b + 10,
            ropMax |-> b + 11,
            ropCalculation |-> b + 12],
           [kind |-> "refarray", items |-> <<b + 3, b + 4>>],
           [kind |-> "location", name |-> "Site A - Warehouse 1", stock |-> 20,
            lastUsed |-> "2023-10-15"],
           [kind |-> "location", name |-> "Site B - Central", stock |-> 25,
            lastUsed |-> "2022-05-20"],
           [kind |-> "array", items |-> <<"600000236064", "600000998877", "500200112233">>],
           [kind |-> "duplicateAnalysis",
            totalDuplicates |-> 2,
            totalStockAcrossDuplicates |-> 120,
            potentialSavings |-> 30000,
            duplicates |-> b + 7],
           [kind |-> "refarray", items |-> <<b + 8, b + 9>>],
           [kind |-> "duplicate", materialCode |-> "998877665", manufacturer |-> "SKF",
            description |-> "Bearing 22216 EK", stockInHand |-> 80, annualUsage |-> 5,
            lastUsed |-> "2021-01-10", location |-> "Site A - Warehouse 1", unitCost |-> 280],
           [kind |-> "duplicate", materialCode |-> "112233445", manufacturer |-> "Timken",
            description |-> "Roller Bearing 22216-E1", stockInHand |-> 40, annualUsage |-> 12,
            lastUsed |-> "2023-11-01", location |-> "Site C", unitCost |-> 240],
           [kind |-> "obsolescence", riskLevel |-> "High", yearsInStock |-> "2.5",
            marketAvailability |-> "Readily Available"],
           [kind |-> "ropMax", reorderPoint |-> 10, maxStock |-> 50,
            currentStatus |-> "Overstock"],
           [kind |-> "ropCalculation", suggestedROP |-> 10, suggestedMAX |-> 50,
            suggestedEOQ |-> 15, requestedROP |-> 12, requestedMAX |-> 60,
            inputParameters |-> b + 13, baseCalculations |-> b + 14,
            adjustments |-> b + 15],
           [kind |-> "inputParameters", annualUsage |-> 120, leadTime |-> 30,
            criticality |-> "B", unitPrice |-> 250],
           [kind |-> "baseCalculations", baseROP |-> 12, baseEOQ |-> 15, baseMAX |-> 60],
           [kind |-> "adjustments", reason |-> "High duplication detected across sites",
            duplicateDeduction |-> 2, obsolescenceDeduction |-> 0, totalDeduction |-> 2]
         >>]

\* ------------------------------------------------ service: JSON.parse

\* A response text is a sequence of JSON tokens.  The tokens the model's
\* endpoint can produce:
JStrings == {"materialCode", "totalQuantity", "obsolescence", "riskLevel", "A7", "High"}
JNumbers == {"0", "45"}
JLiterals == {"null", "true", "false"}
JWhitespace == {" ", "\n"}

JNull == [t |-> "literal", v |-> "null"]

RECURSIVE ParseValue(_), ParseMembers(_, _, _)

\* value := string | number | literal | '{' members? '}'
\* The result is [ok, val, rest]: the value read and the tokens after it.
ParseValue(toks) ==
    IF Len(toks) = 0 THEN [ok |-> FALSE, val |-> JNull, rest |-> toks]
    ELSE LET c == Head(toks) IN
         CASE c \in JStrings -> [ok |-> TRUE, val |-> [t |-> "string", v |-> c], rest |-> Tail(toks)]
           [] c \in JNumbers -> [ok |-> TRUE, val |-> [t |-> "number", v |-> c], rest |-> Tail(toks)]
           [] c \in JLiterals -> [ok |-> TRUE, val |-> [t |-> "literal", v |-> c], rest |-> Tail(toks)]
           [] c = "{" -> ParseMembers(Tail(toks), <<>>, TRUE)
           [] OTHER -> [ok |-> FALSE, val |-> JNull, rest |-> toks]

\* members := string ':' value (',' string ':' value)*
ParseMembers(toks, acc, first) ==
    LET bad == [ok |-> FALSE, val |-> JNull, rest |-> toks] IN
    IF Len(toks) = 0 THEN bad
    ELSE IF first /\ Head(toks) = "}"
    THEN [ok |-> TRUE, val |-> [t |-> "object", v |-> acc], rest |-> Tail(toks)]
    ELSE IF Len(toks) < 3 \/ Head(toks) \notin JStrings \/ toks[2] # ":" THEN bad
    ELSE LET m == ParseValue(SubSeq(toks, 3, Len(toks))) IN
         IF ~m.ok \/ Len(m.rest) = 0 THEN bad
         ELSE LET acc2 == Append(acc, <<Head(toks), m.val>>) IN
              CASE Head(m.rest) = "}" ->
                     [ok |-> TRUE, val |-> [t |-> "object", v |-> acc2], rest |-> Tail(m.rest)]
                [] Head(m.rest) = "," -> ParseMembers(Tail(m.rest), acc2, FALSE)
                [] OTHER -> bad

\* JSON.parse(text): whitespace between tokens is skipped, the whole text
\* must be one value; ok = FALSE stands for the SyntaxError it throws.
JSONParse(text) ==
    LET r == ParseValue(SelectSeq(text, LAMBDA c : c \notin JWhitespace))
    IN  IF r.ok /\ Len(r.rest) = 0
        THEN [ok |-> TRUE, val |-> r.val]
        ELSE [ok |-> FALSE, val |-> JNull]

\* What ai.models.generateContent can do: reject, or resolve to a response
\* whose text is missing (undefined) or some string.
ResponseTexts ==
    { <<>>,
      <<" ">>,
      <<"{", "materialCode", ":", "A7">>,
      <<"{", "materialCode", ":", "A7", ",", " ", "totalQuantity", ":", "45", "}">>,
      <<"null">>,
      <<"{", "obsolescence", ":", "{", "riskLevel", ":", "High", "}", "}", "\n">> }

Outcomes ==
    { [threw |-> TRUE, hasText |-> FALSE, text |-> <<>>],
      [threw |-> FALSE, hasText |-> FALSE, text |-> <<>>] }
    \cup { [threw |-> FALSE, hasText |-> TRUE, text |-> t] : t \in ResponseTexts }

\* if (response.text): undefined and '' are falsy, every other string truthy
Truthy(o) == o.hasText /\ Len(o.text) > 0

\* ---------------------------------------- service: analyzeMaterialCode

\* The mutant: JSON.parse is called outside the try block, so a SyntaxError
\* rejects the promise.
analyzeMaterialCode_ParseOutsideTry(h, code, o) ==
    LET m == getMockData(h, code)
        fallback == [heap |-> m.heap, settled |-> "resolved", source |-> "mock",
                     ref |-> m.ref, value |-> JNull]
    IN  IF o.threw THEN fallback
        ELSE IF Truthy(o)
        THEN LET p == JSONParse(o.text) IN
             IF p.ok
             THEN [heap |-> h, settled |-> "resolved", source |-> "parsed",
                   ref |-> 0, value |-> p.val]
             ELSE [heap |-> h, settled |-> "rejected", source |-> "none",
                   ref |-> 0, value |-> JNull]
        ELSE fallback

\* analyzeMaterialCode(code) under outcome o of the generateContent call: the
\* promise it returns settles as [settled, source, ref | value].
analyzeMaterialCode(h, code, o) ==
    LET m == getMockData(h, code)
        \* catch (error) { console.error(...); return getMockData(code); }
        fallback == [heap |-> m.heap, settled |-> "resolved", source |-> "mock",
                     ref |-> m.ref, value |-> JNull]
    IN  IF o.threw THEN fallback
        ELSE IF Truthy(o)
        THEN LET p == JSONParse(o.text) IN
             IF p.ok
             THEN [heap |-> h, settled |-> "resolved", source |-> "parsed",
                   ref |-> 0, value |-> p.val]
             ELSE fallback
        ELSE fallback    \* throw new Error("No data returned")

\* --------------------------------------- service: generateBulkAnalysis

DefaultDemoCodes == <<"401121145", "401121146", "401121147">>

\* The mutant: the slice is dropped.
demoCodes_NoSlice(codes) ==
    IF Len(codes) > 0 THEN codes ELSE DefaultDemoCodes

\* codes.length > 0 ? codes.slice(0, 3) : [...]
demoCodes(codes) ==
    IF Len(codes) > 0 THEN SubSeq(codes, 1, Min(3, Len(codes))) ELSE DefaultDemoCodes

\* The callback of demoCodes.map: index is the 0-based position.
bulkItem(h, code, index) ==
    LET m == getMockData(h, code)
        base == m.ref
        da == m.heap[base].duplicateAnalysis
    IN  CASE index = 1 ->
               LET h1 == [m.heap EXCEPT
                            ![base].materialType = "Consumable",
                            ![base].criticality = "C",
                            ![base].stockingStatus = "Do not Stock",
                            ![base].totalQuantity = 1200]
                   h2 == [h1 EXCEPT ![da].totalDuplicates = 0]
                   \* = []: a new empty array
                   h3 == Append(h2, [kind |-> "refarray", items |-> <<>>])
               IN  [ref |-> base, heap |-> [h3 EXCEPT ![da].duplicates = Len(h3)]]
          [] index = 2 ->
               [ref |-> base,
                heap |-> [m.heap EXCEPT
                            ![base].materialType = "Hydraulic",
                            ![base].criticality = "A",
                            ![base].stockingStatus = "Stock Minimal",
                            ![base].totalQuantity = 5]]
          [] OTHER -> [ref |-> base, heap |-> m.heap]

RECURSIVE bulkMap(_, _, _, _)
bulkMap(h, dc, i, refs) ==
    IF i > Len(dc) THEN [heap |-> h, refs |-> refs]
    ELSE LET r == bulkItem(h, dc[i], i - 1)
         IN  bulkMap(r.heap, dc, i + 1, Append(refs, r.ref))

generateBulkAnalysis(h, codes) == bulkMap(h, demoCodes(codes), 1, <<>>)

\* ------------------------------------------------ service: the machine

Codes == {"401121145", "A7"}
CodeLists == UNION { [1..n -> Codes] : n \in 0..MaxCodes }

AnalyzeMaterialCode ==
    \E code \in Codes, o \in Outcomes :
        /\ Len(results) < MaxCalls
        /\ LET r == analyzeMaterialCode(heap, code, o) IN
           /\ heap' = r.heap
           /\ results' = Append(results,
                  [op |-> "analyze", code |-> code, outcome |-> o,
                   settled |-> r.settled, source |-> r.source,
                   refs |-> IF r.source = "mock" THEN <<r.ref>> ELSE <<>>,
                   value |-> r.value, allocated |-> Len(r.heap) - Len(heap)])
        /\ UNCHANGED uiVars

GenerateBulkAnalysis ==
    \E codes \in CodeLists :
        /\ Len(results) < MaxCalls
        /\ LET r == generateBulkAnalysis(heap, codes) IN
           /\ heap' = r.heap
           /\ results' = Append(results,
                  [op |-> "bulk", codes |-> codes, refs |-> r.refs])
        /\ UNCHANGED uiVars

UiIdle ==
    /\ searchInput = <<>>
    /\ dragActive = FALSE
    /\ isLoading = FALSE
    /\ disk = <<>>
    /\ readers = <<>>
    /\ lastEvent = [handler |-> "mount", call |-> [fn |-> "none"]]

ServiceInit == heap = <<>> /\ results = <<>> /\ UiIdle
ServiceNext == AnalyzeMaterialCode \/ GenerateBulkAnalysis
ServiceSpec == ServiceInit /\ [][ServiceNext]_vars

\* ------------------------------------------------- Dashboard: strings

\* A text is a sequence of characters.  String.prototype.trim removes these:
Whitespace == {" ", "\t", "\r", "\n"}

UpperCase == <<"A", "B", "C", "D", "E", "F", "G", "H", "I", "J", "K", "L", "M",
               "N", "O", "P", "Q", "R", "S", "T", "U", "V", "W", "X", "Y", "Z">>
LowerCase == <<"a", "b", "c", "d", "e", "f", "g", "h", "i", "j", "k", "l", "m",
               "n", "o", "p", "q", "r", "s", "t", "u", "v", "w", "x", "y", "z">>

\* s.toLowerCase()
toLowerCase(s) ==
    [i \in DOMAIN s |->
        IF \E k \in DOMAIN UpperCase : UpperCase[k] = s[i]
        THEN LowerCase[CHOOSE k \in DOMAIN UpperCase : UpperCase[k] = s[i]]
        ELSE s[i]]

\* s.trim()
RECURSIVE trimStart(_), trimEnd(_)
trimStart(s) == IF s # <<>> /\ Head(s) \in Whitespace THEN trimStart(Tail(s)) ELSE s
trimEnd(s) ==
    IF s # <<>> /\ s[Len(s)] \in Whitespace THEN trimEnd(SubSeq(s, 1, Len(s) - 1)) ELSE s
trim(s) == trimEnd(trimStart(s))

\* text.split(/\r?\n/): a scan that closes the current row at every LF, the
\* CR right before the LF belonging to the separator.
RECURSIVE splitLinesFrom(_, _, _)
splitLinesFrom(text, row, rows) ==
    IF text = <<>> THEN Append(rows, row)
    ELSE IF Head(text) = "\n"
    THEN LET closed == IF row # <<>> /\ row[Len(row)] = "\r"
                       THEN SubSeq(row, 1, Len(row) - 1) ELSE row
         IN  splitLinesFrom(Tail(text), <<>>, Append(rows, closed))
    ELSE splitLinesFrom(Tail(text), Append(row, Head(text)), rows)
splitLines(text) == splitLinesFrom(text, <<>>, <<>>)

\* row.split(',')[0]
RECURSIVE firstField(_)
firstField(row) ==
    IF row = <<>> \/ Head(row) = "," THEN <<>> ELSE <<Head(row)>> \o firstField(Tail(row))

HeaderText == <<"m", "a", "t", "e", "r", "i", "a", "l", " ", "c", "o", "d", "e">>

\* The mutant: the header row is compared as written.
parseCodes_CaseSensitiveHeader(text) ==
    LET rows == splitLines(text)
        mapped == [i \in DOMAIN rows |-> trim(firstField(rows[i]))]
    IN  SelectSeq(mapped, LAMBDA code : Len(code) > 0 /\ code # HeaderText)

\* The reader.onload callback's split / map / filter chain.
parseCodes(text) ==
    LET rows == splitLines(text)
        mapped == [i \in DOMAIN rows |-> trim(firstField(rows[i]))]
    IN  SelectSeq(mapped, LAMBDA code : Len(code) > 0 /\ toLowerCase(code) # HeaderText)

\* ------------------------------------------------- Dashboard: handlers

NoCall == [fn |-> "none"]

\* What the user can type into the search field.
SearchInputs == { <<>>, <<" ">>, <<"A">>, <<" ", "A", " ">> }

\* The files of the interactive specification.
UiDisk ==
    [n \in {"stock.csv", "empty.txt"} |->
        IF n = "empty.txt" THEN <<>>
        ELSE <<"c", "o", "d", "e", "\r", "\n", "A", ",", "x", "\n", "B", "\n">>]

\* The sample rows uploaded files are made of.
RowSamples ==
    { <<>>,
      <<"A">>,
      <<" ", "B", " ", ",", "A">>,
      <<",", "A">>,
      <<"\t", "A", "\r">>,
      <<"M", "a", "t", "e", "r", "i", "a", "l", " ", "C", "o", "d", "e">>,
      <<" ", "M", "A", "T", "E", "R", "I", "A", "L", " ", "C", "O", "D", "E", ",", "x">> }
LineBreaks == { <<"\n">>, <<"\r", "\n">> }

\* The texts of exactly n sample rows joined by line breaks.
RECURSIVE TextsOf(_)
TextsOf(n) ==
    IF n <= 1 THEN RowSamples
    ELSE { t \o b \o r : t \in TextsOf(n - 1), b \in LineBreaks, r \in RowSamples }
FileTexts == UNION { TextsOf(n) : n \in 1..MaxRows }

\* onChange of the search field; the field is disabled while isLoading.
SetSearchInput ==
    \E v \in SearchInputs :
        /\ ~isLoading
        /\ searchInput' = v
        /\ lastEvent' = [handler |-> "onChange", call |-> NoCall]
        /\ UNCHANGED <<heap, results, dragActive, isLoading, disk, readers>>

\* The form can be submitted when its submit button is enabled:
\* disabled={isLoading || !searchInput}.
handleSubmit ==
    /\ ~(isLoading \/ searchInput = <<>>)
    /\ lastEvent' =
         [handler |-> "handleSubmit",
          call |-> IF trim(searchInput) # <<>>
                   THEN [fn |-> "onSearch", code |-> trim(searchInput), loading |-> isLoading]
                   ELSE NoCall]
    /\ UNCHANGED <<heap, results, searchInput, dragActive, isLoading, disk, readers>>

\* handleFile(file): a new FileReader starts reading the file.
handleFile(name) == readers' = Append(readers, name)

\* onChange of the file input, disabled while isLoading; picked is the
\* FileList the dialog returned (empty when it was cancelled).
handleFileChange ==
    \E picked \in {<<>>} \cup { <<n>> : n \in DOMAIN disk } :
        /\ ~isLoading
        /\ Len(readers) < MaxPending
        /\ IF Len(picked) > 0 THEN handleFile(picked[1]) ELSE UNCHANGED readers
        /\ lastEvent' = [handler |-> "handleFileChange", call |-> NoCall]
        /\ UNCHANGED <<heap, results, searchInput, dragActive, isLoading, disk>>

\* onDragEnter, onDragOver, onDragLeave of the drop zone.
handleDrag ==
    \E type \in {"dragenter", "dragover", "dragleave"} :
        /\ dragActive' = IF type = "dragenter" \/ type = "dragover" THEN TRUE
                         ELSE IF type = "dragleave" THEN FALSE ELSE dragActive
        /\ lastEvent' = [handler |-> "handleDrag", call |-> NoCall]
        /\ UNCHANGED <<heap, results, searchInput, isLoading, disk, readers>>

\* onDrop of the drop zone; dropped is e.dataTransfer.files.
handleDrop ==
    \E dropped \in {<<>>} \cup { <<n>> : n \in DOMAIN disk } :
        /\ Len(readers) < MaxPending
        /\ dragActive' = FALSE
        /\ IF Len(dropped) > 0 THEN handleFile(dropped[1]) ELSE UNCHANGED readers
        /\ lastEvent' = [handler |-> "handleDrop", call |-> NoCall]
        /\ UNCHANGED <<heap, results, searchInput, isLoading, disk>>

RemoveAt(s, i) == SubSeq(s, 1, i - 1) \o SubSeq(s, i + 1, Len(s))

\* reader.onload of any reader in flight: the text is parsed and onUpload
\* is invoked with the codes and the file's name.
readerOnload ==
    \E i \in DOMAIN readers :
        LET text == disk[readers[i]] IN
        /\ readers' = RemoveAt(readers, i)
        /\ lastEvent' =
             [handler |-> "onload", text |-> text,
              call |-> [fn |-> "onUpload", codes |-> parseCodes(text),
                        fileName |-> readers[i], loading |-> isLoading]]
        /\ UNCHANGED <<heap, results, searchInput, dragActive, isLoading, disk>>

\* A read that fails fires no load event (the reader has no onerror).
readerError ==
    \E i \in DOMAIN readers :
        /\ readers' = RemoveAt(readers, i)
        /\ lastEvent' = [handler |-> "error", call |-> NoCall]
        /\ UNCHANGED <<heap, results, searchInput, dragActive, isLoading, disk>>

\* The parent renders the Dashboard with a new isLoading prop.
SetIsLoading ==
    \E b \in BOOLEAN :
        /\ b # isLoading
        /\ isLoading' = b
        /\ lastEvent' = [handler |-> "render", call |-> NoCall]
        /\ UNCHANGED <<heap, results, searchInput, dragActive, disk, readers>>

Init ==
    /\ heap = <<>> /\ results = <<>>
    /\ searchInput = <<>>
    /\ dragActive = FALSE
    /\ isLoading = FALSE
    /\ disk = UiDisk
    /\ readers = <<>>
    /\ lastEvent = [handler |-> "mount", call |-> NoCall]

Next ==
    \/ SetSearchInput
    \/ handleSubmit
    \/ handleFileChange
    \/ handleDrag
    \/ handleDrop
    \/ readerOnload
    \/ readerError
    \/ SetIsLoading

Spec == Init /\ [][Next]_vars

\* The upload path alone, over every file text of up to MaxRows rows.
CsvInit ==
    /\ heap = <<>> /\ results = <<>>
    /\ searchInput = <<>>
    /\ dragActive = FALSE
    /\ isLoading = FALSE
    /\ disk \in { [n \in {"upload.csv"} |-> t] : t \in FileTexts }
    /\ readers = <<>>
    /\ lastEvent = [handler |-> "mount", call |-> NoCall]

CsvNext ==
    \/ handleFileChange
    \/ handleDrop
    \/ readerOnload
    \/ readerError

CsvSpec == CsvInit /\ [][CsvNext]_vars

\* ------------------------------------------- service: reading the heap

\* The references object o holds.
Refs(o) ==
    CASE o.kind = "profile" ->
           {o.locations, o.equipmentParent, o.duplicateAnalysis, o.obsolescence,
            o.ropMax, o.ropCalculation}
      [] o.kind = "refarray" -> {o.items[i] : i \in DOMAIN o.items}
      [] o.kind = "duplicateAnalysis" -> {o.duplicates}
      [] o.kind = "ropCalculation" -> {o.inputParameters, o.baseCalculations, o.adjustments}
      [] OTHER -> {}

\* The objects reachable from reference a, a included.
RECURSIVE Reach(_, _)
Reach(h, a) == {a} \cup UNION { Reach(h, b) : b \in Refs(h[a]) }

\* The value reference a denotes: the object with every reference in it
\* replaced by the value it refers to (what a field-for-field comparison or
\* JSON.stringify sees).
RECURSIVE Deep(_, _)
Deep(h, a) ==
    LET o == h[a] IN
    CASE o.kind = "profile" ->
           [o EXCEPT !.locations = Deep(h, @), !.equipmentParent = Deep(h, @),
                     !.duplicateAnalysis = Deep(h, @), !.obsolescence = Deep(h, @),
                     !.ropMax = Deep(h, @), !.ropCalculation = Deep(h, @)]
      [] o.kind = "refarray" -> [o EXCEPT !.items = [i \in DOMAIN @ |-> Deep(h, @[i])]]
      [] o.kind = "duplicateAnalysis" -> [o EXCEPT !.duplicates = Deep(h, @)]
      [] o.kind = "ropCalculation" ->
           [o EXCEPT !.inputParameters = Deep(h, @), !.baseCalculations = Deep(h, @),
                     !.adjustments = Deep(h, @)]
      [] OTHER -> o

\* The record a single getMockData(code) call denotes, with nothing else
\* on the heap.
MockTreeOf(code) == Deep(getMockData(<<>>, code).heap, 1)
MockTrees == [c \in Codes \cup {DefaultDemoCodes[i] : i \in 1..3} |-> MockTreeOf(c)]
MockTree(code) == MockTrees[code]

\* The calls whose records come out of getMockData untouched: a failing
\* analyzeMaterialCode, and position 0 of generateBulkAnalysis.
RawMock ==
    { <<results[i].refs[1], results[i].code>> :
        i \in { k \in DOMAIN results :
                  results[k].op = "analyze" /\ results[k].source = "mock" } }
    \cup
    { <<results[i].refs[1], demoCodes(results[i].codes)[1]>> :
        i \in { k \in DOMAIN results : results[k].op = "bulk" } }

\* The external call failed as far as analyzeMaterialCode is concerned.
CallFailed(o) ==
    \/ o.threw
    \/ ~o.hasText
    \/ o.text = <<>>
    \/ ~JSONParse(o.text).ok

\* -------------------------------------------------------------- claims

\* C1: analyzeMaterialCode never rejects.  It resolves to the mock record
\* for its code exactly when the external call throws, returns a missing or
\* empty text, or returns text that is not JSON; otherwise it resolves to
\* the parsed text and allocates no mock record.
C1_AnalyzeAlwaysResolves ==
    \A i \in DOMAIN results :
        results[i].op = "analyze" =>
            LET r == results[i] IN
            /\ r.settled = "resolved"
            /\ CallFailed(r.outcome) <=> r.source = "mock"
            /\ CallFailed(r.outcome) =>
                   /\ r.refs[1] \in DOMAIN heap
                   /\ Deep(heap, r.refs[1]) = MockTree(r.code)
            /\ ~CallFailed(r.outcome) =>
                   /\ r.source = "parsed"
                   /\ r.value = JSONParse(r.outcome.text).val
                   /\ r.allocated = 0

\* C1's case: one call fell back on unparseable text, another returned the
\* parsed response.
C1_Witness ==
    \E i, j \in DOMAIN results :
        /\ results[i].op = "analyze" /\ results[j].op = "analyze"
        /\ results[i].outcome.hasText /\ results[i].outcome.text # <<>>
        /\ ~JSONParse(results[i].outcome.text).ok
        /\ results[i].source = "mock"
        /\ results[j].source = "parsed" /\ results[j].value.t = "object"

\* C2: any two records the mock fallback produced are equal field for field
\* except for materialCode, which is the code that was passed in.  (All
\* records agree pairwise exactly when each agrees with one chosen record.)
C2_MockDeterministic ==
    \A a \in RawMock :
        LET da == Deep(heap, a[1])
            b == CHOOSE x \in RawMock : TRUE
        IN  /\ da.materialCode = a[2]
            /\ [da EXCEPT !.materialCode = ""] = [Deep(heap, b[1]) EXCEPT !.materialCode = ""]

\* C2's case: two failing analyzeMaterialCode calls with different codes.
C2_Witness ==
    \E i, j \in DOMAIN results :
        /\ results[i].op = "analyze" /\ results[j].op = "analyze"
        /\ results[i].source = "mock" /\ results[j].source = "mock"
        /\ results[i].code # results[j].code

C5_ThreeUniqueItems ==
    \A i \in DOMAIN results :
        results[i].op = "bulk" =>
            LET r == results[i] IN
            /\ Len(r.refs) = 3
            /\ \A k, l \in 1..Len(r.refs) :
                   k # l => heap[r.refs[k]].materialCode # heap[r.refs[l]].materialCode

\* What position index of generateBulkAnalysis is meant to hold for code.
BulkExpected(code, index) ==
    LET m == MockTree(code) IN
    CASE index = 1 ->
           [m EXCEPT !.materialType = "Consumable", !.criticality = "C",
                     !.stockingStatus = "Do not Stock", !.totalQuantity = 1200,
                     !.duplicateAnalysis.totalDuplicates = 0,
                     !.duplicateAnalysis.duplicates = [kind |-> "refarray", items |-> <<>>]]
      [] index = 2 ->
           [m EXCEPT !.materialType = "Hydraulic", !.criticality = "A",
                     !.stockingStatus = "Stock Minimal", !.totalQuantity = 5]
      [] OTHER -> m

\* Every record any call returned, as <<call, position>>.
Returned ==
    { <<i, k>> \in (DOMAIN results) \X (1..3) : k <= Len(results[i].refs) }

\* The returned records' references, in the order they were returned.
RECURSIVE ReturnedRefs(_)
ReturnedRefs(i) ==
    IF i > Len(results) THEN <<>> ELSE results[i].refs \o ReturnedRefs(i + 1)

\* No object is reachable from two of the references in roots.
RECURSIVE NoneShared(_, _)
NoneShared(roots, seen) ==
    \/ roots = <<>>
    \/ LET r == Reach(heap, Head(roots)) IN
       /\ r \cap seen = {}
       /\ NoneShared(Tail(roots), seen \cup r)

\* C9: no two returned records share an object, and every returned record
\* holds, whatever was called before or after, the value its own call gave
\* it: the overrides of position 1 and 2 show in that record only.
C9_NoSharedState ==
    /\ NoneShared(ReturnedRefs(1), {})
    /\ \A x \in Returned :
           LET r == results[x[1]] IN
           Deep(heap, r.refs[x[2]]) =
               IF r.op = "analyze" THEN MockTree(r.code)
               ELSE BulkExpected(demoCodes(r.codes)[x[2]], x[2] - 1)

\* C9's case: a bulk call with all three positions, then another mock record.
C9_Witness ==
    /\ Len(results) = 2
    /\ results[1].op = "bulk" /\ Len(results[1].refs) = 3
    /\ (results[2].op = "analyze" => results[2].source = "mock")
    /\ heap[heap[results[1].refs[2]].duplicateAnalysis].totalDuplicates = 0

\* ---------------------------------------------- claims: the Dashboard

\* C3: every service callback the Dashboard invokes carries at least one
\* material code: onSearch a string that is not blank, onUpload a list
\* that is not empty.
C3_AtLeastOneCode ==
    /\ lastEvent.call.fn = "onSearch" =>
           \E i \in DOMAIN lastEvent.call.code : lastEvent.call.code[i] \notin Whitespace
    /\ lastEvent.call.fn = "onUpload" => Len(lastEvent.call.codes) > 0

\* What the upload is meant to deliver, stated over positions of the text
\* rather than as a scan.
SetMin(S) == CHOOSE x \in S : \A y \in S : x <= y
SetMax(S) == CHOOSE x \in S : \A y \in S : x >= y

\* The rows of t: a row starts at 1 and after every LF, and ends before the
\* next LF, or before the CR that precedes that LF.
RowsOf(t) ==
    LET starts == {1} \cup { i + 1 : i \in { j \in 1..Len(t) : t[j] = "\n" } }
        start(k) == CHOOSE x \in starts : Cardinality({ y \in starts : y < x }) = k - 1
        end(a) ==
            LET lfs == { j \in a..Len(t) : t[j] = "\n" } IN
            IF lfs = {} THEN Len(t)
            ELSE IF SetMin(lfs) - 1 >= a /\ t[SetMin(lfs) - 1] = "\r"
            THEN SetMin(lfs) - 2
            ELSE SetMin(lfs) - 1
    IN  [k \in 1..Cardinality(starts) |-> SubSeq(t, start(k), end(start(k)))]

\* f without the whitespace around it.
Stripped(f) ==
    LET ink == { i \in DOMAIN f : f[i] \notin Whitespace } IN
    IF ink = {} THEN <<>> ELSE SubSeq(f, SetMin(ink), SetMax(ink))

\* The first comma-separated value of row, stripped.
FirstValue(row) ==
    LET commas == { i \in DOMAIN row : row[i] = "," } IN
    Stripped(SubSeq(row, 1, IF commas = {} THEN Len(row) ELSE SetMin(commas) - 1))

\* The first comma-separated value of row that is not blank, stripped
\* (empty when the row holds none).
RECURSIVE FirstNonEmptyValue(_)
FirstNonEmptyValue(row) ==
    LET commas == { i \in DOMAIN row : row[i] = "," } IN
    IF FirstValue(row) # <<>> \/ commas = {} THEN FirstValue(row)
    ELSE FirstNonEmptyValue(SubSeq(row, SetMin(commas) + 1, Len(row)))

SameIgnoringCase(a, b) ==
    /\ Len(a) = Len(b)
    /\ \A i \in DOMAIN a :
           \/ a[i] = b[i]
           \/ \E k \in DOMAIN UpperCase : {a[i], b[i]} = {UpperCase[k], LowerCase[k]}

IsCode(c) == c # <<>> /\ ~SameIgnoringCase(c, HeaderText)

\* C6: the list handed to onUpload holds, row by row, the first non-empty
\* comma-separated value of each row (header and valueless rows left out).
C6_FirstNonEmptyValue ==
    lastEvent.handler = "onload" =>
        lastEvent.call.codes =
            SelectSeq([k \in DOMAIN RowsOf(lastEvent.text) |->
                          FirstNonEmptyValue(RowsOf(lastEvent.text)[k])], IsCode)

\* C7: a completed read invokes onUpload, with the rows' first values in
\* file order, duplicates kept; every code is non-empty, has no whitespace
\* at either end, holds no comma and is not the header in any letter case.
C7_UploadedCodes ==
    lastEvent.handler = "onload" =>
        LET codes == lastEvent.call.codes
            rows == RowsOf(lastEvent.text)
        IN  /\ lastEvent.call.fn = "onUpload"
            /\ codes = SelectSeq([k \in DOMAIN rows |-> FirstValue(rows[k])], IsCode)
            /\ \A k \in DOMAIN codes :
                   /\ codes[k] # <<>>
                   /\ codes[k][1] \notin Whitespace
                   /\ codes[k][Len(codes[k])] \notin Whitespace
                   /\ \A i \in DOMAIN codes[k] : codes[k][i] # ","
                   /\ ~SameIgnoringCase(codes[k], HeaderText)

\* C7's case: a CRLF file whose first row needs trimming and cutting at the
\* comma and whose second row is the header in capitals.
C7_Witness ==
    /\ lastEvent.handler = "onload"
    /\ lastEvent.text =
         <<" ", "B", " ", ",", "A", "\r", "\n",
           " ", "M", "A", "T", "E", "R", "I", "A", "L", " ", "C", "O", "D", "E", ",", "x">>
    /\ lastEvent.call.codes = << <<"B">> >>

\* C8: no callback is invoked while isLoading is true.
C8_NoCallWhileLoading ==
    lastEvent.call.fn # "none" => ~lastEvent.call.loading

====
